---- MODULE Spec2Model ----
(***************************************************************************)
(* Model of the PDF tools of pdg-merger: the splitter and its page-range    *)
(* parser parseRanges, the compressor (both in                              *)
(* src/components/PDFSplitter.tsx), the merger                              *)
(* (src/components/PDFMerger.tsx) and the tool switch (PDFTools.tsx).       *)
(*                                                                          *)
(* A JavaScript string is a sequence of one-character strings, so that      *)
(* trim, split, includes and parseInt are computed character by character.  *)
(***************************************************************************)
EXTENDS Integers, Sequences, FiniteSets, TLC

VARIABLES
  input,        \* ParseSpec: the rangeString handed to parseRanges
  pages,        \* ParseSpec: the totalPages the call closes over
  called,       \* ParseSpec: whether parseRanges has been applied
  result,       \* ParseSpec: what the call returned or threw
  selectedFile, \* useState<File | null>: 0 is null, else a file of Files
  totalPages,   \* useState<number>(0)
  splitRanges,  \* useState<string>('')
  isProcessing, \* useState(false)
  splitPDFs,    \* useState<SplitPDF[]>([]): the published output documents
  rangeError,   \* useState<string>(''): the message shown under the input
  loading,      \* handleFileSelect calls suspended at their awaits
  run,          \* the splitPDF call suspended at its awaits, if any
  crashed,      \* an exception escaped a render: the tree is unmounted
  parseCalls,   \* the parseRanges calls made by the latest step
  activeTool,   \* PDFTools: useState<Tool>('merge'), the mounted component
  mergerFiles,        \* PDFMerger: useState<PDFFile[]>([])
  mergerIsProcessing, \* PDFMerger: useState(false)
  downloadUrl,        \* PDFMerger: useState<string | null>(null), as the
                      \* document the object URL refers to
  draggedIndex,       \* PDFMerger: useState<number | null>(null)
  fileName,           \* PDFMerger: useState('')
  fileNameError,      \* PDFMerger: useState('')
  mergeRun,           \* the mergePDFs call suspended at its awaits, if any
  compressorFiles,        \* PDFCompressor: useState<PDFFile[]>([])
  compressorIsProcessing, \* PDFCompressor: useState(false)
  previews,     \* PDFCompressor: handleFileSelect calls suspended at
                \* Promise.all, each with its validFiles
  compressRun,  \* the compressFiles call suspended at its await, if any
  nextId        \* the ids Math.random has handed out so far

vars == <<input, pages, called, result, selectedFile, totalPages, splitRanges,
          isProcessing, splitPDFs, rangeError, loading, run, crashed,
          parseCalls, activeTool, mergerFiles, mergerIsProcessing, downloadUrl,
          draggedIndex, fileName, fileNameError, mergeRun, compressorFiles,
          compressorIsProcessing, previews, compressRun, nextId>>

parseVars == <<input, pages, called, result>>

uiVars == <<selectedFile, totalPages, splitRanges, isProcessing, splitPDFs,
            rangeError, loading, run, crashed, parseCalls>>

\* The state of the splitter, but for the flag of the whole tree
splitterVars == <<selectedFile, totalPages, splitRanges, isProcessing,
                  splitPDFs, rangeError, loading, run, parseCalls>>

mergerVars == <<mergerFiles, mergerIsProcessing, downloadUrl, draggedIndex,
                fileName, fileNameError, mergeRun>>

compressorVars == <<compressorFiles, compressorIsProcessing, previews,
                    compressRun, nextId>>

\* What a handler of the splitter leaves alone: the other components
toolVars == <<activeTool, mergerVars, compressorVars>>

----------------------------------------------------------------------------
(* Bounds *)

MaxLen == 4

MaxPages == 2

Alphabet == {"0", "1", "2", "-", ",", " ", "a"}

Strings == UNION {[1..n -> Alphabet] : n \in 0..MaxLen}

\* Longer inputs: overlapping, duplicate and unsorted tokens, white space
\* around tokens and '-', several invalid tokens, more than one '-'
LongInputs ==
  { <<"2", ",", "1", "-", "2">>,
    <<"1", "-", "2", ",", "2">>,
    <<"1", "-", "2", ",", "1", "-", "2">>,
    <<" ", "1", " ", "-", " ", "2", " ">>,
    <<"1", "-", "2", ",", " ", "2", ",", "1">>,
    <<"1", "-", "2", "-", "1">>,
    <<"1", ",", " ", "a", " ", ",", "0">>,
    <<"2", "-", "1", ",", "0", "-", "a">>,
    <<"1", ",", "2", "a", ",", "1">>,
    <<"1", "2", "-", "1", ",", "a">>,
    <<"1", " ", "-", " ", "2", ",", "1">> }

----------------------------------------------------------------------------
(* JavaScript string primitives used by parseRanges *)

IsSpace(c) == c = " "

IsDigit(c) == c \in {"0", "1", "2", "3", "4", "5", "6", "7", "8", "9"}

DigitVal(c) ==
  CASE c = "0" -> 0 [] c = "1" -> 1 [] c = "2" -> 2 [] c = "3" -> 3
    [] c = "4" -> 4 [] c = "5" -> 5 [] c = "6" -> 6 [] c = "7" -> 7
    [] c = "8" -> 8 [] c = "9" -> 9

RECURSIVE TrimStart(_)
TrimStart(s) ==
  IF s # <<>> /\ IsSpace(Head(s)) THEN TrimStart(Tail(s)) ELSE s

RECURSIVE TrimEnd(_)
TrimEnd(s) ==
  IF s # <<>> /\ IsSpace(s[Len(s)]) THEN TrimEnd(SubSeq(s, 1, Len(s) - 1)) ELSE s

\* String.prototype.trim
Trim(s) == TrimEnd(TrimStart(s))

\* String.prototype.includes for a one-character needle
Includes(s, c) == \E i \in 1..Len(s) : s[i] = c

\* String.prototype.split for a one-character separator: "" splits to [""]
RECURSIVE SplitFrom(_, _, _)
SplitFrom(s, sep, cur) ==
  IF s = <<>> THEN <<cur>>
  ELSE IF Head(s) = sep THEN <<cur>> \o SplitFrom(Tail(s), sep, <<>>)
  ELSE SplitFrom(Tail(s), sep, Append(cur, Head(s)))

Split(s, sep) == SplitFrom(s, sep, <<>>)

\* The value of the longest prefix of decimal digits of s, given the value
\* acc of the digits already read.
RECURSIVE DigitsValue(_, _)
DigitsValue(s, acc) ==
  IF s # <<>> /\ IsDigit(Head(s))
  THEN DigitsValue(Tail(s), 10 * acc + DigitVal(Head(s)))
  ELSE acc

NaN == [nan |-> TRUE, n |-> 0]

Num(n) == [nan |-> FALSE, n |-> n]

\* parseInt(string): leading white space is skipped, an optional sign is
\* read, then the longest run of digits; whatever follows is ignored, and
\* no digit at all gives NaN.
parseInt(s) ==
  LET t    == TrimStart(s)
      neg  == t # <<>> /\ Head(t) = "-"
      sgn  == t # <<>> /\ Head(t) \in {"-", "+"}
      body == IF sgn THEN Tail(t) ELSE t
  IN  IF body = <<>> \/ ~IsDigit(Head(body)) THEN NaN
      ELSE Num((IF neg THEN -1 ELSE 1) * DigitsValue(body, 0))

isNaN(x) == x.nan

----------------------------------------------------------------------------
(* parseRanges: what it returns, or the Error it throws *)

\* return ranges
Return(ranges) ==
  [ok |-> TRUE, ranges |-> ranges, msg |-> "", part |-> <<>>, page |-> 0,
   total |-> 0]

\* throw new Error(<template msg>), with the values the template interpolates:
\* ${part}, ${page} and ${totalPages} (<<>> or 0 where the template has none)
Throw(msg, part, page, total) ==
  [ok |-> FALSE, ranges |-> <<>>, msg |-> msg, part |-> part, page |-> page,
   total |-> total]

\* The failure kind each message of parseRanges stands for.
Kind(r) ==
  CASE r.ok -> "None"
    [] r.msg = "Debes especificar" -> "EmptyInput"
    [] r.msg \in {"Rango invalido", "Pagina invalida"} -> "MalformedToken"
    [] r.msg = "Deben ser numeros positivos" -> "NonPositivePage"
    [] r.msg \in {"No pueden ser mayores a", "La pagina no existe"} ->
         "PageOutOfBounds"
    [] r.msg = "El inicio no puede ser mayor al final" -> "InvertedRange"

\* The messages whose text quotes ${part}.
QuotesPart(r) ==
  r.msg \in {"Rango invalido", "Pagina invalida", "Deben ser numeros positivos",
             "No pueden ser mayores a", "El inicio no puede ser mayor al final"}

\* SplitParts without the .map(part => part.trim())
SplitPartsUntrimmed(rangeString) == Split(rangeString, ",")

\* `${page}`: a page number as the template literal prints it
RECURSIVE Decimal(_)
Decimal(n) ==
  LET digit == CHOOSE c \in {"0", "1", "2", "3", "4", "5", "6", "7", "8", "9"} :
                 DigitVal(c) = n % 10
  IN  IF n < 10 THEN <<digit>> ELSE Append(Decimal(n \div 10), digit)

\* The text about the offending token that the message of a failure holds:
\* "${part}", or the ${page} of 'La página ${page} no existe'
QuotedText(r) ==
  IF QuotesPart(r) THEN r.part
  ELSE IF r.msg = "La pagina no existe" THEN Decimal(r.page)
  ELSE <<>>

\* const parts = rangeString.split(',').map(part => part.trim())
SplitParts(rangeString) ==
  LET raw == Split(rangeString, ",")
  IN  [i \in 1..Len(raw) |-> Trim(raw[i])]

\* const [start, end] = part.split('-').map(num => parseInt(num.trim()))
RangeEnds(part) ==
  LET nums == Split(part, "-")
  IN  <<parseInt(Trim(nums[1])), parseInt(Trim(nums[2]))>>

\* ParsePart with the upper bound tested on start alone
ParsePartStartBoundOnly(part, total) ==
  IF Includes(part, "-")
  THEN LET ends  == RangeEnds(part)
           start == ends[1]
           end   == ends[2]
       IN  IF isNaN(start) \/ isNaN(end)
             THEN Throw("Rango invalido", part, 0, 0)
           ELSE IF start.n < 1 \/ end.n < 1
             THEN Throw("Deben ser numeros positivos", part, 0, 0)
           ELSE IF start.n > total
             THEN Throw("No pueden ser mayores a", part, 0, total)
           ELSE IF start.n > end.n
             THEN Throw("El inicio no puede ser mayor al final", part, 0, 0)
           ELSE Return(<< <<start.n, end.n>> >>)
  ELSE LET page == parseInt(part)
       IN  IF isNaN(page)
             THEN Throw("Pagina invalida", part, 0, 0)
           ELSE IF page.n < 1
             THEN Throw("Deben ser numeros positivos", part, 0, 0)
           ELSE IF page.n > total
             THEN Throw("La pagina no existe", <<>>, page.n, total)
           ELSE Return(<< <<page.n, page.n>> >>)

\* ParsePart with the range-ordering test moved before the upper-bound test
ParsePartOrderFirst(part, total) ==
  IF Includes(part, "-")
  THEN LET ends  == RangeEnds(part)
           start == ends[1]
           end   == ends[2]
       IN  IF isNaN(start) \/ isNaN(end)
             THEN Throw("Rango invalido", part, 0, 0)
           ELSE IF start.n < 1 \/ end.n < 1
             THEN Throw("Deben ser numeros positivos", part, 0, 0)
           ELSE IF start.n > end.n
             THEN Throw("El inicio no puede ser mayor al final", part, 0, 0)
           ELSE IF start.n > total \/ end.n > total
             THEN Throw("No pueden ser mayores a", part, 0, total)
           ELSE Return(<< <<start.n, end.n>> >>)
  ELSE LET page == parseInt(part)
       IN  IF isNaN(page)
             THEN Throw("Pagina invalida", part, 0, 0)
           ELSE IF page.n < 1
             THEN Throw("Deben ser numeros positivos", part, 0, 0)
           ELSE IF page.n > total
             THEN Throw("La pagina no existe", <<>>, page.n, total)
           ELSE Return(<< <<page.n, page.n>> >>)

\* ParsePart with the upper-bound tests skipped while no page count is
\* known (totalPages && ... > totalPages)
ParsePartUnboundedAtZero(part, total) ==
  IF Includes(part, "-")
  THEN LET ends  == RangeEnds(part)
           start == ends[1]
           end   == ends[2]
       IN  IF isNaN(start) \/ isNaN(end)
             THEN Throw("Rango invalido", part, 0, 0)
           ELSE IF start.n < 1 \/ end.n < 1
             THEN Throw("Deben ser numeros positivos", part, 0, 0)
           ELSE IF total > 0 /\ (start.n > total \/ end.n > total)
             THEN Throw("No pueden ser mayores a", part, 0, total)
           ELSE IF start.n > end.n
             THEN Throw("El inicio no puede ser mayor al final", part, 0, 0)
           ELSE Return(<< <<start.n, end.n>> >>)
  ELSE LET page == parseInt(part)
       IN  IF isNaN(page)
             THEN Throw("Pagina invalida", part, 0, 0)
           ELSE IF page.n < 1
             THEN Throw("Deben ser numeros positivos", part, 0, 0)
           ELSE IF total > 0 /\ page.n > total
             THEN Throw("La pagina no existe", <<>>, page.n, total)
           ELSE Return(<< <<page.n, page.n>> >>)

\* ParsePart with the comparisons of the upper-bound tests turned round
ParsePartBoundInverted(part, total) ==
  IF Includes(part, "-")
  THEN LET ends  == RangeEnds(part)
           start == ends[1]
           end   == ends[2]
       IN  IF isNaN(start) \/ isNaN(end)
             THEN Throw("Rango invalido", part, 0, 0)
           ELSE IF start.n < 1 \/ end.n < 1
             THEN Throw("Deben ser numeros positivos", part, 0, 0)
           ELSE IF start.n < total \/ end.n < total
             THEN Throw("No pueden ser mayores a", part, 0, total)
           ELSE IF start.n > end.n
             THEN Throw("El inicio no puede ser mayor al final", part, 0, 0)
           ELSE Return(<< <<start.n, end.n>> >>)
  ELSE LET page == parseInt(part)
       IN  IF isNaN(page)
             THEN Throw("Pagina invalida", part, 0, 0)
           ELSE IF page.n < 1
             THEN Throw("Deben ser numeros positivos", part, 0, 0)
           ELSE IF page.n < total
             THEN Throw("La pagina no existe", <<>>, page.n, total)
           ELSE Return(<< <<page.n, page.n>> >>)

\* ParsePart with the upper-bound tests off by one (>= for >)
ParsePartBoundOffByOne(part, total) ==
  IF Includes(part, "-")
  THEN LET ends  == RangeEnds(part)
           start == ends[1]
           end   == ends[2]
       IN  IF isNaN(start) \/ isNaN(end)
             THEN Throw("Rango invalido", part, 0, 0)
           ELSE IF start.n < 1 \/ end.n < 1
             THEN Throw("Deben ser numeros positivos", part, 0, 0)
           ELSE IF start.n >= total \/ end.n >= total
             THEN Throw("No pueden ser mayores a", part, 0, total)
           ELSE IF start.n > end.n
             THEN Throw("El inicio no puede ser mayor al final", part, 0, 0)
           ELSE Return(<< <<start.n, end.n>> >>)
  ELSE LET page == parseInt(part)
       IN  IF isNaN(page)
             THEN Throw("Pagina invalida", part, 0, 0)
           ELSE IF page.n < 1
             THEN Throw("Deben ser numeros positivos", part, 0, 0)
           ELSE IF page.n >= total
             THEN Throw("La pagina no existe", <<>>, page.n, total)
           ELSE Return(<< <<page.n, page.n>> >>)

\* ParsePart pushing the 0-based page indices instead of the page numbers
ParsePartZeroBased(part, total) ==
  IF Includes(part, "-")
  THEN LET ends  == RangeEnds(part)
           start == ends[1]
           end   == ends[2]
       IN  IF isNaN(start) \/ isNaN(end)
             THEN Throw("Rango invalido", part, 0, 0)
           ELSE IF start.n < 1 \/ end.n < 1
             THEN Throw("Deben ser numeros positivos", part, 0, 0)
           ELSE IF start.n > total \/ end.n > total
             THEN Throw("No pueden ser mayores a", part, 0, total)
           ELSE IF start.n > end.n
             THEN Throw("El inicio no puede ser mayor al final", part, 0, 0)
           ELSE Return(<< <<start.n - 1, end.n - 1>> >>)
  ELSE LET page == parseInt(part)
       IN  IF isNaN(page)
             THEN Throw("Pagina invalida", part, 0, 0)
           ELSE IF page.n < 1
             THEN Throw("Deben ser numeros positivos", part, 0, 0)
           ELSE IF page.n > total
             THEN Throw("La pagina no existe", <<>>, page.n, total)
           ELSE Return(<< <<page.n - 1, page.n - 1>> >>)

\* The body of the for loop over parts: the interval of one part, or the
\* Error its first failing check throws.
ParsePart(part, total) ==
  IF Includes(part, "-")
  THEN LET ends  == RangeEnds(part)
           start == ends[1]
           end   == ends[2]
       IN  IF isNaN(start) \/ isNaN(end)
             THEN Throw("Rango invalido", part, 0, 0)
           ELSE IF start.n < 1 \/ end.n < 1
             THEN Throw("Deben ser numeros positivos", part, 0, 0)
           ELSE IF start.n > total \/ end.n > total
             THEN Throw("No pueden ser mayores a", part, 0, total)
           ELSE IF start.n > end.n
             THEN Throw("El inicio no puede ser mayor al final", part, 0, 0)
           ELSE Return(<< <<start.n, end.n>> >>)
  ELSE LET page == parseInt(part)
       IN  IF isNaN(page)
             THEN Throw("Pagina invalida", part, 0, 0)
           ELSE IF page.n < 1
             THEN Throw("Deben ser numeros positivos", part, 0, 0)
           ELSE IF page.n > total
             THEN Throw("La pagina no existe", <<>>, page.n, total)
           ELSE Return(<< <<page.n, page.n>> >>)

\* ParseLoop that keeps validating after a failure and throws the last
\* failure it met
RECURSIVE ParseLoopLastError(_, _, _, _)
ParseLoopLastError(parts, i, ranges, total) ==
  IF i > Len(parts) THEN Return(ranges)
  ELSE LET one  == ParsePart(parts[i], total)
           rest == ParseLoopLastError(parts, i + 1, ranges \o one.ranges, total)
       IN  IF one.ok \/ ~rest.ok THEN rest ELSE one

\* ParseLoop that pushes an interval only when it is not in ranges yet
RECURSIVE ParseLoopDedup(_, _, _, _)
ParseLoopDedup(parts, i, ranges, total) ==
  IF i > Len(parts) THEN Return(ranges)
  ELSE LET one == ParsePart(parts[i], total)
       IN  IF ~one.ok THEN one
           ELSE IF \E k \in 1..Len(ranges) : ranges[k] = one.ranges[1]
           THEN ParseLoopDedup(parts, i + 1, ranges, total)
           ELSE ParseLoopDedup(parts, i + 1, ranges \o one.ranges, total)

\* for (const part of parts) { ... ranges.push(...) }  return ranges
RECURSIVE ParseLoop(_, _, _, _)
ParseLoop(parts, i, ranges, total) ==
  IF i > Len(parts) THEN Return(ranges)
  ELSE LET one == ParsePart(parts[i], total)
       IN  IF one.ok THEN ParseLoop(parts, i + 1, ranges \o one.ranges, total)
           ELSE one

\* parseRanges without its test for an empty rangeString
parseRangesNoEmptyTest(rangeString, total) ==
  ParseLoop(SplitParts(rangeString), 1, <<>>, total)

\* parseRanges testing !rangeString instead of !rangeString.trim()
parseRangesEmptyUntrimmed(rangeString, total) ==
  IF rangeString = <<>>
  THEN Throw("Debes especificar", <<>>, 0, 0)
  ELSE ParseLoop(SplitParts(rangeString), 1, <<>>, total)

\* parseRanges(rangeString), with the totalPages of the render it closes over
parseRanges(rangeString, total) ==
  IF Trim(rangeString) = <<>>
  THEN Throw("Debes especificar", <<>>, 0, 0)
  ELSE ParseLoop(SplitParts(rangeString), 1, <<>>, total)

\* The value of result before parseRanges is applied
NotCalled == Return(<<>>)

----------------------------------------------------------------------------
(* The files a user can hand to the splitter, and what the PDF library     *)
(* reports for each                                                        *)

NoFile == 0

Files == 1..5

\* file.type
FileType(f) == IF f = 5 THEN "text/plain" ELSE "application/pdf"

\* PDFDocument.load(arrayBuffer) throws for this file
LoadThrows(f) == f = 4

\* pdf.getPageCount() of a file that loads
PageCount(f) == CASE f = 1 -> MaxPages [] f = 2 -> 1 [] OTHER -> 0

MaxLoads == 2

\* The range strings typed or pasted into the input in the UI model
RangeInputs ==
  { <<>>, <<" ">>, <<"1">>, <<"2">>, <<"a">>, <<"1", "-", "2">>,
    <<"2", ",", "1">> }

NoError == Throw("", <<>>, 0, 0)

Idle == [pc |-> "idle", file |-> NoFile, ranges |-> <<>>, total |-> 0,
         intervals |-> <<>>, i |-> 0, newSplitPDFs |-> <<>>]

\* One parseRanges call: where it was made, the totalPages it read and
\* whether it returned.
Call(site, rangeString, total) ==
  [site |-> site, total |-> total, ok |-> parseRanges(rangeString, total).ok]

\* {selectedFile && splitRanges && !rangeError && ( ... )}
ReadyPanel(file, ranges, error) ==
  file # NoFile /\ ranges # <<>> /\ error = NoError

\* The parseRanges calls of one render of the component:
\* {parseRanges(splitRanges).length} inside the 'ready to split' panel
RenderCalls(file, total, ranges, error) ==
  IF ReadyPanel(file, ranges, error)
  THEN {Call("render", ranges, total)}
  ELSE {}

\* The render that follows a state update, after a handler that made the
\* parseRanges calls `made`: an exception thrown while rendering is caught
\* by nothing and unmounts the component tree.
Render(made) ==
  LET calls == RenderCalls(selectedFile', totalPages', splitRanges', rangeError')
  IN  /\ parseCalls' = made \cup calls
      /\ crashed' = \E c \in calls : ~c.ok

\* validateRanges(rangeString): the rangeError it sets
validateRanges(rangeString, total) ==
  LET r == parseRanges(rangeString, total)
  IN  IF r.ok THEN NoError ELSE r

RECURSIVE SumOver(_, _)
SumOver(S, cnt) ==
  IF S = {} THEN 0
  ELSE LET x == CHOOSE y \in S : TRUE IN cnt[x] + SumOver(S \ {x}, cnt)

\* The handleFileSelect calls that have not settled yet
InFlight == SumOver(Files, loading)

\* draggedIndex when no row is being dragged
Null == -1

\* downloadUrl when no merged document has been published
NoUrl == [files |-> <<>>, pages |-> <<>>]

MergeIdle == [pc |-> "idle", files |-> <<>>, i |-> 0]

CompressIdle == [pc |-> "idle", files |-> <<>>, i |-> 0]

\* The state of a PDFMerger when it is mounted
MergerMounted ==
  /\ mergerFiles = <<>>
  /\ mergerIsProcessing = FALSE
  /\ downloadUrl = NoUrl
  /\ draggedIndex = Null
  /\ fileName = <<>>
  /\ fileNameError = ""
  /\ mergeRun = MergeIdle

\* The state of a PDFCompressor when it is mounted
CompressorMounted ==
  /\ compressorFiles = <<>>
  /\ compressorIsProcessing = FALSE
  /\ previews = <<>>
  /\ compressRun = CompressIdle
  /\ nextId = 1

Init ==
  /\ input = <<>>
  /\ pages = 0
  /\ called = FALSE
  /\ result = NotCalled
  /\ selectedFile = NoFile
  /\ totalPages = 0
  /\ splitRanges = <<>>
  /\ isProcessing = FALSE
  /\ splitPDFs = <<>>
  /\ rangeError = NoError
  /\ loading = [f \in Files |-> 0]
  /\ run = Idle
  /\ crashed = FALSE
  /\ parseCalls = {}
  /\ activeTool = "split"
  /\ MergerMounted
  /\ CompressorMounted

\* handleFileSelect(file), up to its first await
HandleFileSelect(f) ==
  /\ ~crashed
  /\ InFlight < MaxLoads
  /\ IF FileType(f) # "application/pdf"
     THEN /\ UNCHANGED <<selectedFile, splitPDFs, splitRanges, rangeError,
                         loading, crashed>>
          /\ parseCalls' = {}
     ELSE /\ selectedFile' = f
          /\ splitPDFs' = <<>>
          /\ splitRanges' = <<>>
          /\ rangeError' = NoError
          /\ loading' = [loading EXCEPT ![f] = @ + 1]
          /\ Render({})
  /\ UNCHANGED <<totalPages, isProcessing, run>>
  /\ UNCHANGED <<parseVars, toolVars>>

\* handleFileSelect(file), from the point where its awaits settle
FileLoaded(f) ==
  /\ ~crashed
  /\ loading[f] > 0
  /\ loading' = [loading EXCEPT ![f] = @ - 1]
  /\ IF LoadThrows(f)
     THEN /\ selectedFile' = NoFile
          /\ totalPages' = 0
     ELSE /\ totalPages' = PageCount(f)
          /\ UNCHANGED selectedFile
  /\ UNCHANGED <<splitRanges, rangeError, isProcessing, splitPDFs, run>>
  /\ Render({})
  /\ UNCHANGED <<parseVars, toolVars>>

\* handleRangeChange(value): the range input is shown once a file is selected
HandleRangeChange(value) ==
  /\ ~crashed
  /\ selectedFile # NoFile
  /\ splitRanges' = value
  /\ IF Trim(value) # <<>> /\ totalPages > 0
     THEN /\ rangeError' = validateRanges(value, totalPages)
          /\ UNCHANGED <<selectedFile, totalPages>>
          /\ Render({Call("handleRangeChange", value, totalPages)})
     ELSE /\ rangeError' = NoError
          /\ UNCHANGED <<selectedFile, totalPages>>
          /\ Render({})
  /\ UNCHANGED <<isProcessing, splitPDFs, loading, run>>
  /\ UNCHANGED <<parseVars, toolVars>>

\* resetAll: its buttons are shown with a selected file or with results
ResetAll ==
  /\ ~crashed
  /\ selectedFile # NoFile \/ splitPDFs # <<>>
  /\ selectedFile' = NoFile
  /\ totalPages' = 0
  /\ splitRanges' = <<>>
  /\ splitPDFs' = <<>>
  /\ rangeError' = NoError
  /\ UNCHANGED <<isProcessing, loading, run>>
  /\ Render({})
  /\ UNCHANGED <<parseVars, toolVars>>

\* SplitDoc with pageIndices.push(pageNum): page numbers used as indices
SplitDocOneBased(f, interval) ==
  [file |-> f, startPage |-> interval[1], endPage |-> interval[2],
   pageIndices |-> [k \in 1..(interval[2] - interval[1] + 1) |->
                      interval[1] + k - 1]]

\* The output document of one interval: copyPages(originalPdf, pageIndices)
\* with pageIndices startPage - 1 .. endPage - 1, then save
SplitDoc(f, interval) ==
  [file |-> f, startPage |-> interval[1], endPage |-> interval[2],
   pageIndices |-> [k \in 1..(interval[2] - interval[1] + 1) |->
                      interval[1] + k - 2]]

\* SplitPDF with a button that is not disabled while isProcessing
SplitPDFNeverDisabled ==
  /\ ~crashed
  /\ ReadyPanel(selectedFile, splitRanges, rangeError)
  /\ rangeError' = validateRanges(splitRanges, totalPages)
  /\ IF rangeError' # NoError
     THEN UNCHANGED <<isProcessing, run>>
     ELSE /\ isProcessing' = TRUE
          /\ run' = [Idle EXCEPT !.pc = "load", !.file = selectedFile,
                                 !.ranges = splitRanges, !.total = totalPages]
  /\ UNCHANGED <<selectedFile, totalPages, splitRanges, splitPDFs, loading>>
  /\ Render({Call("splitPDF", splitRanges, totalPages)})
  /\ UNCHANGED <<parseVars, toolVars>>

\* splitPDF(), up to its first await; the button is in the 'ready to split'
\* panel and is disabled while isProcessing
SplitPDF ==
  /\ ~crashed
  /\ ReadyPanel(selectedFile, splitRanges, rangeError)
  /\ ~isProcessing
  /\ rangeError' = validateRanges(splitRanges, totalPages)
  /\ IF rangeError' # NoError
     THEN UNCHANGED <<isProcessing, run>>
     ELSE /\ isProcessing' = TRUE
          /\ run' = [Idle EXCEPT !.pc = "load", !.file = selectedFile,
                                 !.ranges = splitRanges, !.total = totalPages]
  /\ UNCHANGED <<selectedFile, totalPages, splitRanges, splitPDFs, loading>>
  /\ Render({Call("splitPDF", splitRanges, totalPages)})
  /\ UNCHANGED <<parseVars, toolVars>>

\* catch (error) { alert } finally { setIsProcessing(false) }
SplitCaught ==
  /\ isProcessing' = FALSE
  /\ run' = Idle
  /\ UNCHANGED splitPDFs

\* SplitLoaded parsing the splitRanges and totalPages of the latest render
\* instead of those of the render whose button was clicked
SplitLoadedLatestState ==
  /\ ~crashed
  /\ run.pc = "load"
  /\ LET ranges == parseRanges(splitRanges, totalPages)
     IN  IF LoadThrows(run.file) \/ ~ranges.ok
         THEN SplitCaught
         ELSE /\ run' = [run EXCEPT !.pc = "loop", !.intervals = ranges.ranges,
                                    !.i = 1]
              /\ UNCHANGED <<isProcessing, splitPDFs>>
  /\ UNCHANGED <<selectedFile, totalPages, splitRanges, rangeError, loading>>
  /\ IF LoadThrows(run.file)
     THEN Render({})
     ELSE Render({Call("splitPDF", splitRanges, totalPages)})
  /\ UNCHANGED <<parseVars, toolVars>>

\* splitPDF(), from the point where arrayBuffer() and PDFDocument.load()
\* settle: the ranges are parsed again, with the splitRanges and totalPages
\* of the render whose button was clicked
SplitLoaded ==
  /\ ~crashed
  /\ run.pc = "load"
  /\ LET ranges == parseRanges(run.ranges, run.total)
     IN  IF LoadThrows(run.file) \/ ~ranges.ok
         THEN SplitCaught
         ELSE /\ run' = [run EXCEPT !.pc = "loop", !.intervals = ranges.ranges,
                                    !.i = 1]
              /\ UNCHANGED <<isProcessing, splitPDFs>>
  /\ UNCHANGED <<selectedFile, totalPages, splitRanges, rangeError, loading>>
  /\ IF LoadThrows(run.file)
     THEN Render({})
     ELSE Render({Call("splitPDF", run.ranges, run.total)})
  /\ UNCHANGED <<parseVars, toolVars>>

\* SplitInterval with a catch block that publishes the documents made
\* before the failure
SplitIntervalPartial ==
  /\ ~crashed
  /\ run.pc = "loop"
  /\ LET interval == run.intervals[run.i]
         out      == Append(run.newSplitPDFs, SplitDoc(run.file, interval))
     IN  IF interval[2] > PageCount(run.file)
         THEN /\ splitPDFs' = run.newSplitPDFs
              /\ isProcessing' = FALSE
              /\ run' = Idle
         ELSE IF run.i < Len(run.intervals)
         THEN /\ run' = [run EXCEPT !.i = @ + 1, !.newSplitPDFs = out]
              /\ UNCHANGED <<isProcessing, splitPDFs>>
         ELSE /\ splitPDFs' = out
              /\ isProcessing' = FALSE
              /\ run' = Idle
  /\ UNCHANGED <<selectedFile, totalPages, splitRanges, rangeError, loading>>
  /\ Render({})
  /\ UNCHANGED <<parseVars, toolVars>>

\* One turn of the loop over ranges: create, copyPages, addPage, save, push;
\* copyPages throws for an index the document does not have.  After the
\* last turn the results are published and the busy flag is released.
SplitInterval ==
  /\ ~crashed
  /\ run.pc = "loop"
  /\ LET interval == run.intervals[run.i]
         out      == Append(run.newSplitPDFs, SplitDoc(run.file, interval))
     IN  IF interval[2] > PageCount(run.file)
         THEN SplitCaught
         ELSE IF run.i < Len(run.intervals)
         THEN /\ run' = [run EXCEPT !.i = @ + 1, !.newSplitPDFs = out]
              /\ UNCHANGED <<isProcessing, splitPDFs>>
         ELSE /\ splitPDFs' = out
              /\ isProcessing' = FALSE
              /\ run' = Idle
  /\ UNCHANGED <<selectedFile, totalPages, splitRanges, rangeError, loading>>
  /\ Render({})
  /\ UNCHANGED <<parseVars, toolVars>>

Next ==
  \/ \E f \in Files : HandleFileSelect(f)
  \/ \E f \in Files : FileLoaded(f)
  \/ \E value \in RangeInputs : HandleRangeChange(value)
  \/ ResetAll
  \/ SplitPDF
  \/ SplitLoaded
  \/ SplitInterval

Spec == Init /\ [][Next]_vars

----------------------------------------------------------------------------
(* ParseSpec: parseRanges applied to every input within the bounds *)

\* The inputs written from page numbers: "N" and "A-B" for every N, A, B up
\* to one page past the largest document
PageInputs ==
  {Decimal(n) : n \in 0..(MaxPages + 1)}
    \cup {Decimal(a) \o <<"-">> \o Decimal(b) :
            a \in 0..(MaxPages + 1), b \in 0..(MaxPages + 1)}

ParseInit ==
  /\ input \in Strings \cup LongInputs \cup PageInputs
  /\ pages \in 0..MaxPages
  /\ called = FALSE
  /\ result = NotCalled
  /\ selectedFile = NoFile
  /\ totalPages = 0
  /\ splitRanges = <<>>
  /\ isProcessing = FALSE
  /\ splitPDFs = <<>>
  /\ rangeError = NoError
  /\ loading = [f \in Files |-> 0]
  /\ run = Idle
  /\ crashed = FALSE
  /\ parseCalls = {}
  /\ activeTool = "split"
  /\ MergerMounted
  /\ CompressorMounted

CallParse ==
  /\ ~called
  /\ called' = TRUE
  /\ result' = parseRanges(input, pages)
  /\ UNCHANGED <<input, pages>>

ParseNext == CallParse /\ UNCHANGED <<uiVars, toolVars>>

ParseSpec == ParseInit /\ [][ParseNext]_vars

----------------------------------------------------------------------------
(* Properties of parseRanges, checked under ParseSpec *)

\* The comma-separated tokens of the input as typed, and as the loop sees them
RawTokens == Split(input, ",")

Tokens == SplitParts(input)

\* The numbers a token holds: both ends of a range, or the single page
TokenNumbers(part) ==
  IF Includes(part, "-") THEN RangeEnds(part) ELSE <<parseInt(part)>>

\* The four validation rules, each on its own
BreaksWellFormed(part) ==
  LET nums == TokenNumbers(part)
  IN  \E k \in 1..Len(nums) : isNaN(nums[k])

BreaksPositive(part) ==
  LET nums == TokenNumbers(part)
  IN  \E k \in 1..Len(nums) : ~isNaN(nums[k]) /\ nums[k].n < 1

BreaksUpperBound(part, total) ==
  LET nums == TokenNumbers(part)
  IN  \E k \in 1..Len(nums) : ~isNaN(nums[k]) /\ nums[k].n > total

BreaksOrdering(part) ==
  LET nums == TokenNumbers(part)
  IN  /\ Len(nums) = 2
      /\ ~isNaN(nums[1]) /\ ~isNaN(nums[2])
      /\ nums[1].n > nums[2].n

BreaksSomeRule(part, total) ==
  \/ BreaksWellFormed(part) \/ BreaksPositive(part)
  \/ BreaksUpperBound(part, total) \/ BreaksOrdering(part)

\* The failure kind of the earliest rule a token breaks
EarliestKind(part, total) ==
  IF BreaksWellFormed(part) THEN "MalformedToken"
  ELSE IF BreaksPositive(part) THEN "NonPositivePage"
  ELSE IF BreaksUpperBound(part, total) THEN "PageOutOfBounds"
  ELSE IF BreaksOrdering(part) THEN "InvertedRange"
  ELSE "None"

InvalidTokens ==
  LET tokens == Tokens
  IN  {i \in 1..Len(tokens) : BreaksSomeRule(tokens[i], pages)}

Leftmost(S) == CHOOSE i \in S : \A j \in S : i <= j

Rightmost(S) == CHOOSE i \in S : \A j \in S : j <= i

Blank == Trim(input) = <<>>

\* C1: whenever parseRanges succeeds, every interval [start, end] of its
\* result satisfies 1 <= start <= end <= totalPages.
C1_IntervalsWithinDocument ==
  (called /\ result.ok) =>
    \A i \in 1..Len(result.ranges) :
      /\ 1 <= result.ranges[i][1]
      /\ result.ranges[i][1] <= result.ranges[i][2]
      /\ result.ranges[i][2] <= pages

\* A successful parse of two tokens, one of them a proper range
C1_Witness ==
  /\ called /\ result.ok /\ Len(result.ranges) = 2
  /\ \E i \in 1..2 : result.ranges[i][1] < result.ranges[i][2]

\* C2: the failure reported for the offending token is the one of the
\* earliest rule it breaks, in the order well-formedness, positivity, upper
\* bound, range ordering.
C2_EarliestRuleWins ==
  (called /\ ~result.ok /\ ~Blank) =>
    /\ InvalidTokens # {}
    /\ Kind(result) = EarliestKind(Tokens[Leftmost(InvalidTokens)], pages)

\* An inverted range with a side above totalPages, reported as out of bounds
C2_Witness ==
  /\ called /\ ~Blank /\ InvalidTokens # {}
  /\ BreaksOrdering(Tokens[Leftmost(InvalidTokens)])
  /\ BreaksUpperBound(Tokens[Leftmost(InvalidTokens)], pages)
  /\ Kind(result) = "PageOutOfBounds"

\* C3: with several invalid tokens, the one failure reported is the failure
\* of the leftmost invalid token.
C3_LeftmostInvalidToken ==
  (called /\ ~result.ok /\ ~Blank) =>
    /\ InvalidTokens # {}
    /\ result = ParsePart(Tokens[Leftmost(InvalidTokens)], pages)

\* Two invalid tokens that fail differently; the left one is reported
C3_Witness ==
  /\ called /\ ~Blank /\ Cardinality(InvalidTokens) >= 2
  /\ ParsePart(Tokens[Leftmost(InvalidTokens)], pages)
       # ParsePart(Tokens[Rightmost(InvalidTokens)], pages)
  /\ result = ParsePart(Tokens[Leftmost(InvalidTokens)], pages)

\* C4: a successful parse of k comma-separated tokens has exactly k
\* intervals, the i-th being the interval of the i-th token: nothing is
\* deduplicated, merged or sorted.
C4_OneIntervalPerToken ==
  (called /\ result.ok) =>
    /\ Len(result.ranges) = Len(RawTokens)
    /\ \A i \in 1..Len(RawTokens) :
         << result.ranges[i] >> = ParsePart(Trim(RawTokens[i]), pages).ranges

\* Two tokens that overlap and are out of ascending order, both kept
C4_Witness ==
  /\ called /\ result.ok /\ Len(RawTokens) = 2 /\ Len(result.ranges) = 2
  /\ result.ranges[2][1] < result.ranges[1][1]
  /\ result.ranges[2][2] >= result.ranges[1][1]

\* A successful parse with the same token twice
C4_WitnessDuplicate ==
  /\ called /\ result.ok /\ Len(result.ranges) = 2
  /\ result.ranges[1] = result.ranges[2]

\* A side of a token that is an integer literal: digits only, once the
\* white space around it is dropped
IsIntegerLiteral(side) ==
  /\ Trim(side) # <<>>
  /\ \A k \in 1..Len(Trim(side)) : IsDigit(Trim(side)[k])

\* The sides of a token: the text on each side of its '-', or all of it
Sides(part) == IF Includes(part, "-") THEN Split(part, "-") ELSE <<part>>

\* A token of which one of the (first two) sides is no integer literal
HasNonInteger(part) ==
  \E k \in 1..Len(Sides(part)) : k <= 2 /\ ~IsIntegerLiteral(Sides(part)[k])

\* A token of the form N or A-B
HasTokenForm(part) ==
  /\ Len(Sides(part)) <= 2
  /\ \A k \in 1..Len(Sides(part)) : IsIntegerLiteral(Sides(part)[k])

LeftAreValid(i) == \A j \in 1..(i - 1) : ParsePart(Tokens[j], pages).ok

\* C5: a token with a side that is no integer literal (an empty side, an
\* empty token, a side with non-digit characters) fails with MalformedToken
\* for that token, when the tokens on its left are valid.
C5_NonIntegerIsMalformed ==
  (called /\ ~Blank) =>
    \A i \in 1..Len(Tokens) :
      (HasNonInteger(Tokens[i]) /\ LeftAreValid(i)) =>
        /\ Kind(result) = "MalformedToken"
        /\ result.part = Tokens[i]

\* C6: parseRanges succeeds only when every token has the form N or A-B; a
\* token with more than one '-' is rejected with MalformedToken.
C6_OnlyTokenForms ==
  called =>
    /\ result.ok => \A i \in 1..Len(Tokens) : HasTokenForm(Tokens[i])
    /\ \A i \in 1..Len(Tokens) :
         (~Blank /\ Len(Sides(Tokens[i])) > 2 /\ LeftAreValid(i)) =>
           Kind(result) = "MalformedToken"

\* C7 as stated: with totalPages 0, every non-empty input fails with
\* PageOutOfBounds.
C7_ZeroPagesOutOfBounds ==
  (called /\ pages = 0 /\ input # <<>>) =>
    /\ ~result.ok
    /\ Kind(result) = "PageOutOfBounds"

\* C7, amended: with totalPages 0, every non-empty input fails, with the
\* failure of the earliest rule its first token breaks: EmptyInput for a
\* blank input, MalformedToken, NonPositivePage, and PageOutOfBounds only
\* for a first token whose numbers are all at least 1.
C7_ZeroPagesAlwaysFails ==
  (called /\ pages = 0 /\ input # <<>>) =>
    /\ ~result.ok
    /\ Kind(result) =
         IF Blank THEN "EmptyInput"
         ELSE IF BreaksWellFormed(Tokens[1]) THEN "MalformedToken"
         ELSE IF BreaksPositive(Tokens[1]) THEN "NonPositivePage"
         ELSE "PageOutOfBounds"

\* No document, and a first token that would be valid in any document
C7_Witness ==
  /\ called /\ pages = 0 /\ ~Blank
  /\ ~BreaksWellFormed(Tokens[1]) /\ ~BreaksPositive(Tokens[1])
  /\ ~BreaksOrdering(Tokens[1])
  /\ Kind(result) = "PageOutOfBounds"

\* C9 as stated: the token text of a failure is the offending token as it
\* stands in the input, white space included.
C9_ErrorQuotesRawToken ==
  (called /\ ~result.ok /\ ~Blank) =>
    QuotedText(result) = RawTokens[Leftmost(InvalidTokens)]

\* C9, amended: the token text of a failure is the offending token with the
\* white space around it removed; the failure of a single page above
\* totalPages quotes the parsed page number and no token text, and the
\* failure of a blank input quotes nothing.
C9_ErrorQuotesTrimmedToken ==
  (called /\ ~result.ok) =>
    IF QuotesPart(result)
    THEN result.part = Trim(RawTokens[Leftmost(InvalidTokens)])
    ELSE /\ result.part = <<>>
         /\ result.msg = "La pagina no existe" =>
              result.page = parseInt(RawTokens[Leftmost(InvalidTokens)]).n

\* A failure on a token typed with white space around it
C9_Witness ==
  /\ called /\ ~result.ok /\ QuotesPart(result)
  /\ RawTokens[Leftmost(InvalidTokens)] # result.part
  /\ result.part # <<>>
  /\ QuotedText(result) = result.part

----------------------------------------------------------------------------
(* Properties of the splitter component, checked under Spec *)

\* C8: a rejected range string never escapes as an exception: whenever the
\* 'ready to split' panel is rendered, parseRanges(splitRanges) succeeds
\* with the current totalPages, and no render has thrown.
C8_RenderNeverThrows ==
  /\ ~crashed
  /\ ReadyPanel(selectedFile, splitRanges, rangeError) =>
       parseRanges(splitRanges, totalPages).ok

\* C10: parseRanges is never called while totalPages is 0, by
\* handleRangeChange, by splitPDF or by a render.
C10_NoParseWithoutPageCount ==
  \A c \in parseCalls : c.total > 0

\* C11: once no load is in flight, totalPages is the page count of the
\* selected file, and 0 when no file is selected; a load that settles late
\* for an earlier selection changes nothing.
C11_TotalPagesOfSelectedFile ==
  (~crashed /\ InFlight = 0) =>
    totalPages = IF selectedFile # NoFile THEN PageCount(selectedFile) ELSE 0

----------------------------------------------------------------------------
(* Further properties of parseRanges, checked under ParseSpec *)

\* What a call of parseRanges comes to: its intervals, or its failure kind
Outcome(r) == <<r.ok, r.ranges, Kind(r)>>

\* C12: if parseRanges succeeds with totalPages T, it succeeds with every
\* larger T' and returns the identical intervals.
C12_MonotonicInTotalPages ==
  (called /\ result.ok) =>
    \A larger \in (pages + 1)..(MaxPages + 1) :
      parseRanges(input, larger) = result

\* A successful parse that reaches the last page of its document
C12_Witness ==
  /\ called /\ result.ok /\ pages >= 1
  /\ \E i \in 1..Len(result.ranges) : result.ranges[i][2] = pages

\* The range from page 1 to the last page
WholeDocument(total) == <<"1", "-">> \o Decimal(total)

\* C13 as stated: for every totalPages >= 0, "1-<totalPages>" succeeds and
\* the single page totalPages + 1 fails with PageOutOfBounds.
C13_BoundaryFromZero ==
  called =>
    /\ input = WholeDocument(pages) => result.ok
    /\ input = Decimal(pages + 1) => Kind(result) = "PageOutOfBounds"

\* C13, amended: for every totalPages >= 1, "1-<totalPages>" succeeds with
\* the one interval (1, totalPages); for totalPages = 0 it fails with
\* NonPositivePage; for every totalPages >= 0 the single page
\* totalPages + 1 fails with PageOutOfBounds.
C13_Boundary ==
  called =>
    /\ (input = WholeDocument(pages) /\ pages >= 1) =>
         result = Return(<< <<1, pages>> >>)
    /\ (input = WholeDocument(pages) /\ pages = 0) =>
         Kind(result) = "NonPositivePage"
    /\ input = Decimal(pages + 1) => Kind(result) = "PageOutOfBounds"

\* The whole of the largest document, parsed
C13_Witness ==
  called /\ pages = MaxPages /\ input = WholeDocument(pages) /\ result.ok

\* The page after the last one of the largest document, rejected
C13_WitnessPastEnd ==
  /\ called /\ pages = MaxPages /\ input = Decimal(pages + 1)
  /\ Kind(result) = "PageOutOfBounds"

\* C14: an input that is empty or white space only fails with EmptyInput
\* and yields no interval, whatever totalPages is.
C14_BlankInputRejected ==
  (called /\ \A k \in 1..Len(input) : IsSpace(input[k])) =>
    /\ ~result.ok
    /\ Kind(result) = "EmptyInput"
    /\ result.ranges = <<>>

\* A white-space input in a document that has pages
C14_Witness ==
  /\ called /\ pages >= 1 /\ Len(input) >= 2
  /\ \A k \in 1..Len(input) : IsSpace(input[k])
  /\ Kind(result) = "EmptyInput"

\* The places where a space goes before or after a token, or on either side
\* of a '-': the ends of the input and both sides of every ',' and '-'
SpacePlaces(s) ==
  {p \in 0..Len(s) :
     \/ p = 0 \/ p = Len(s)
     \/ s[p] \in {",", "-"}
     \/ s[p + 1] \in {",", "-"}}

InsertSpace(s, p) == SubSeq(s, 1, p) \o <<" ">> \o SubSeq(s, p + 1, Len(s))

\* C15: a space inserted before or after a token, or on either side of the
\* '-' of a range, never changes the outcome: the same intervals, or the
\* same failure kind.
C15_WhitespaceInsensitive ==
  called =>
    \A p \in SpacePlaces(input) :
      Outcome(parseRanges(InsertSpace(input, p), pages)) = Outcome(result)

\* A valid input of a range and a page, typed with spaces around the '-'
C15_Witness ==
  /\ called /\ result.ok /\ Len(result.ranges) = 2
  /\ \E k \in 2..(Len(input) - 1) :
       input[k] = "-" /\ input[k - 1] = " " /\ input[k + 1] = " "

\* C16: "N" with 1 <= N <= totalPages yields exactly the interval (N, N),
\* and "A-B" with 1 <= A <= B <= totalPages exactly the interval (A, B).
C16_SingleTokenInterval ==
  called =>
    /\ \A n \in 1..pages :
         input = Decimal(n) => result = Return(<< <<n, n>> >>)
    /\ \A a \in 1..pages : \A b \in a..pages :
         input = Decimal(a) \o <<"-">> \o Decimal(b) =>
           result = Return(<< <<a, b>> >>)

\* A proper range "A-B" with A < B, parsed
C16_Witness ==
  /\ called /\ result.ok
  /\ \E a \in 1..pages : \E b \in (a + 1)..pages :
       input = Decimal(a) \o <<"-">> \o Decimal(b)

----------------------------------------------------------------------------
(* Properties of splitPDF, checked under Spec *)

\* The step in which a click starts splitPDF
Started == run.pc = "idle" /\ run'.pc = "load"

\* The step in which a splitPDF run publishes its results: setSplitPDFs
Published == run.pc = "loop" /\ run'.pc = "idle" /\ splitPDFs' # splitPDFs

\* C18: a successful split publishes one output document per parsed
\* interval, in interval order; the i-th holds the pages of the source with
\* the 0-based indices start_i - 1 .. end_i - 1, in ascending order.
C18_OneDocumentPerInterval ==
  [][Published =>
       /\ Len(splitPDFs') = Len(run.intervals)
       /\ run.intervals = parseRanges(run.ranges, run.total).ranges
       /\ \A i \in 1..Len(run.intervals) :
            LET idx == splitPDFs'[i].pageIndices
            IN  /\ splitPDFs'[i].file = run.file
                /\ Len(idx) = run.intervals[i][2] - run.intervals[i][1] + 1
                /\ idx[1] = run.intervals[i][1] - 1
                /\ idx[Len(idx)] = run.intervals[i][2] - 1
                /\ \A k \in 2..Len(idx) : idx[k] = idx[k - 1] + 1
  ]_vars

\* Two documents published for "2,1": page 2 first, then page 1
C18_Witness ==
  /\ ~isProcessing /\ Len(splitPDFs) = 2
  /\ splitPDFs[1].pageIndices = <<1>>
  /\ splitPDFs[2].pageIndices = <<0>>

\* C19: the number of files announced in the 'ready to split' panel (the
\* length of parseRanges(splitRanges) in the render whose button is
\* clicked) is the number of documents the split then publishes.
C19_AnnouncedCountIsPublished ==
  [][/\ Started =>
          /\ ReadyPanel(selectedFile, splitRanges, rangeError)
          /\ run'.file = selectedFile
          /\ run'.ranges = splitRanges
          /\ run'.total = totalPages
     /\ Published =>
          Len(splitPDFs') = Len(parseRanges(run.ranges, run.total).ranges)
  ]_vars

\* One document published for the range "1-2", with the panel still
\* announcing one file
C19_Witness ==
  /\ ~isProcessing /\ Len(splitPDFs) = 1
  /\ splitPDFs[1].pageIndices = <<0, 1>>
  /\ ReadyPanel(selectedFile, splitRanges, rangeError)
  /\ Len(parseRanges(splitRanges, totalPages).ranges) = 1

\* C20: splitPDF is not started while isProcessing is true, so at most one
\* run is in progress; within a run the intervals are taken one after
\* another in input order, each after the previous document was saved.
C20_OneRunAtATime ==
  [][/\ (run'.pc = "load" /\ run.pc # "load") =>
          (run.pc = "idle" /\ ~isProcessing)
     /\ isProcessing' <=> run'.pc # "idle"
     /\ run'.pc = "loop" =>
          /\ run'.i \in 1..Len(run'.intervals)
          /\ Len(run'.newSplitPDFs) = run'.i - 1
          /\ \A k \in 1..(run'.i - 1) :
               /\ run'.newSplitPDFs[k].startPage = run'.intervals[k][1]
               /\ run'.newSplitPDFs[k].endPage = run'.intervals[k][2]
     /\ (run.pc = "loop" /\ run'.pc = "loop" /\ run' # run) =>
          (run'.i = run.i + 1 /\ run'.intervals = run.intervals)
  ]_vars

\* A run between its first and its second interval
C20_Witness ==
  /\ isProcessing /\ run.pc = "loop" /\ run.i = 2
  /\ Len(run.newSplitPDFs) = 1

----------------------------------------------------------------------------
(* PDFMerger (src/components/PDFMerger.tsx).  An entry of the list is the  *)
(* file it was made from: its id is unique to it, so removeFile(id) takes  *)
(* out the row it was clicked on and nothing else.                         *)

\* newFiles[draggedIndex] past the end of the array
Undefined == -2

\* The longest list of the merger in the model
MaxListed == 2

\* if (files.length < 2) return
MinToMerge == 2

\* if (name.length > 200)
MaxNameLength == 200

\* The FileLists a user selects or drops in the model: one file, two
\* files, a file twice, and a file that is not a PDF among PDFs
Selections ==
  { <<1>>, <<2>>, <<4>>, <<5>>, <<1, 2>>, <<1, 1>>, <<5, 2>> }

\* /[\/\\:*?"<>|]/
InvalidChars == {"/", "\\", ":", "*", "?", "\"", "<", ">", "|"}

\* reservedNames
ReservedNames ==
  { <<"C", "O", "N">>, <<"P", "R", "N">>, <<"A", "U", "X">>,
    <<"N", "U", "L">> }
    \cup {<<"C", "O", "M", d>> :
            d \in {"1", "2", "3", "4", "5", "6", "7", "8", "9"}}
    \cup {<<"L", "P", "T", d>> :
            d \in {"1", "2", "3", "4", "5", "6", "7", "8", "9"}}

LowerCase ==
  << "a", "b", "c", "d", "e", "f", "g", "h", "i", "j", "k", "l", "m", "n",
     "o", "p", "q", "r", "s", "t", "u", "v", "w", "x", "y", "z" >>

UpperCase ==
  << "A", "B", "C", "D", "E", "F", "G", "H", "I", "J", "K", "L", "M", "N",
     "O", "P", "Q", "R", "S", "T", "U", "V", "W", "X", "Y", "Z" >>

\* name.toUpperCase()
toUpperCase(name) ==
  [i \in 1..Len(name) |->
     IF \E k \in 1..26 : LowerCase[k] = name[i]
     THEN UpperCase[CHOOSE k \in 1..26 : LowerCase[k] = name[i]]
     ELSE name[i]]

\* The names typed into the file-name input in the model: blank, plain,
\* with a forbidden character, reserved (in lower case), and too long
NameInputs ==
  { <<" ">>, <<"a">>, <<"a", "/">>, <<"c", "o", "n">>,
    [i \in 1..(MaxNameLength + 1) |-> "a"] }

\* The message validateFileName(name) sets for a name that is not blank:
\* the first rule that rejects it, or '' when none does
NameMessage(name) ==
  IF \E i \in 1..Len(name) : name[i] \in InvalidChars
  THEN "El nombre no puede contener los caracteres: / \\ : * ? \" < > |"
  ELSE IF toUpperCase(name) \in ReservedNames
  THEN "Este nombre esta reservado por el sistema"
  ELSE IF Len(name) > MaxNameLength
  THEN "El nombre es demasiado largo (maximo 200 caracteres)"
  ELSE ""

\* validateFileName(name): what it returns
validateFileName(name) ==
  Trim(name) = <<>> \/ NameMessage(name) = ""

\* validateFileName(name): fileNameError after the call; a blank name
\* returns before any setFileNameError
ErrorAfterValidate(name, error) ==
  IF Trim(name) = <<>> THEN error ELSE NameMessage(name)

\* What a handler of the merger leaves alone
besideMerger == <<parseVars, splitterVars, activeTool, compressorVars>>

\* array[index], indices from 0
At(array, index) ==
  IF index < Len(array) THEN array[index + 1] ELSE Undefined

\* array.splice(start, 1)
SpliceOut(array, start) ==
  IF start < Len(array)
  THEN SubSeq(array, 1, start) \o SubSeq(array, start + 2, Len(array))
  ELSE array

\* array.splice(start, 0, item)
SpliceIn(array, start, item) ==
  LET at == IF start > Len(array) THEN Len(array) ELSE start
  IN  SubSeq(array, 1, at) \o <<item>> \o SubSeq(array, at + 1, Len(array))

\* The pages of the merged document, each the page `index` of file `file`:
\* copyPages(pdf, pdf.getPageIndices()) and addPage, file after file
RECURSIVE MergedPages(_)
MergedPages(list) ==
  IF list = <<>> THEN <<>>
  ELSE [k \in 1..PageCount(Head(list)) |->
          [file |-> Head(list), index |-> k - 1]]
       \o MergedPages(Tail(list))

\* The render after a state update: files.map(file => ... key={file.id})
\* throws on an entry that is undefined, and nothing catches it
MergerRender ==
  crashed' = \E i \in 1..Len(mergerFiles') : mergerFiles'[i] = Undefined

\* handleFileSelect(selectedFiles), also reached from handleDropUpload
MergerHandleFileSelect(selectedFiles) ==
  /\ ~crashed
  /\ LET newFiles == SelectSeq(selectedFiles,
                               LAMBDA f : FileType(f) = "application/pdf")
     IN  /\ Len(mergerFiles) + Len(newFiles) <= MaxListed
         /\ mergerFiles' = mergerFiles \o newFiles
  /\ UNCHANGED <<mergerIsProcessing, downloadUrl, draggedIndex, fileName,
                 fileNameError, mergeRun>>
  /\ MergerRender
  /\ UNCHANGED besideMerger

\* removeFile(file.id), from the button of the row at `index`
MergerRemoveFile(index) ==
  /\ ~crashed
  /\ index < Len(mergerFiles)
  /\ mergerFiles' = SpliceOut(mergerFiles, index)
  /\ UNCHANGED <<mergerIsProcessing, downloadUrl, draggedIndex, fileName,
                 fileNameError, mergeRun>>
  /\ MergerRender
  /\ UNCHANGED besideMerger

\* handleDragStart(e, index), from the row at `index`
HandleDragStart(index) ==
  /\ ~crashed
  /\ index < Len(mergerFiles)
  /\ draggedIndex' = index
  /\ UNCHANGED <<mergerFiles, mergerIsProcessing, downloadUrl, fileName,
                 fileNameError, mergeRun>>
  /\ MergerRender
  /\ UNCHANGED besideMerger

\* handleDrop(e, dropIndex), from the row at `dropIndex`: any drop on a row
\* calls it, whether or not a row is being dragged
HandleDrop(dropIndex) ==
  /\ ~crashed
  /\ dropIndex < Len(mergerFiles)
  /\ IF draggedIndex = Null
     THEN UNCHANGED <<mergerFiles, draggedIndex>>
     ELSE /\ mergerFiles' =
               SpliceIn(SpliceOut(mergerFiles, draggedIndex), dropIndex,
                        At(mergerFiles, draggedIndex))
          /\ draggedIndex' = Null
  /\ UNCHANGED <<mergerIsProcessing, downloadUrl, fileName, fileNameError,
                 mergeRun>>
  /\ MergerRender
  /\ UNCHANGED besideMerger

\* handleFileNameChange(value): the input is shown with two files or more
HandleFileNameChange(value) ==
  /\ ~crashed
  /\ Len(mergerFiles) > 1
  /\ fileName' = value
  /\ fileNameError' = ErrorAfterValidate(value, fileNameError)
  /\ UNCHANGED <<mergerFiles, mergerIsProcessing, downloadUrl, draggedIndex,
                 mergeRun>>
  /\ MergerRender
  /\ UNCHANGED besideMerger

\* resetAll: its buttons are shown with a file listed or with a download
MergerResetAll ==
  /\ ~crashed
  /\ mergerFiles # <<>> \/ downloadUrl # NoUrl
  /\ mergerFiles' = <<>>
  /\ downloadUrl' = NoUrl
  /\ fileName' = <<>>
  /\ fileNameError' = ""
  /\ UNCHANGED <<mergerIsProcessing, draggedIndex, mergeRun>>
  /\ MergerRender
  /\ UNCHANGED besideMerger

\* mergePDFs(), up to its first await; the button is shown with two files
\* or more and is disabled={isProcessing || !!fileNameError}
MergePDFs ==
  /\ ~crashed
  /\ Len(mergerFiles) > 1
  /\ ~mergerIsProcessing
  /\ fileNameError = ""
  /\ IF Len(mergerFiles) < MinToMerge
     THEN UNCHANGED <<fileNameError, mergerIsProcessing, mergeRun>>
     ELSE /\ fileNameError' = ErrorAfterValidate(fileName, fileNameError)
          /\ IF ~validateFileName(fileName)
             THEN UNCHANGED <<mergerIsProcessing, mergeRun>>
             ELSE /\ mergerIsProcessing' = TRUE
                  /\ mergeRun' = [pc |-> "loop", files |-> mergerFiles,
                                  i |-> 1]
  /\ UNCHANGED <<mergerFiles, downloadUrl, draggedIndex, fileName>>
  /\ MergerRender
  /\ UNCHANGED besideMerger

\* catch (error) { alert } finally { setIsProcessing(false) }
MergeCaught ==
  /\ mergerIsProcessing' = FALSE
  /\ mergeRun' = MergeIdle
  /\ UNCHANGED downloadUrl

\* MergeTurn merging the list of the latest render instead of the list of
\* the render whose button was clicked
MergeTurnLatestList ==
  /\ ~crashed
  /\ mergeRun.pc = "loop"
  /\ IF LoadThrows(mergeRun.files[mergeRun.i])
     THEN MergeCaught
     ELSE IF mergeRun.i < Len(mergeRun.files)
     THEN /\ mergeRun' = [mergeRun EXCEPT !.i = @ + 1]
          /\ UNCHANGED <<mergerIsProcessing, downloadUrl>>
     ELSE /\ downloadUrl' = [files |-> mergerFiles,
                             pages |-> MergedPages(mergerFiles)]
          /\ mergerIsProcessing' = FALSE
          /\ mergeRun' = MergeIdle
  /\ UNCHANGED <<mergerFiles, draggedIndex, fileName, fileNameError>>
  /\ MergerRender
  /\ UNCHANGED besideMerger

\* MergeTurn without the finally block: a failed load leaves the flag set
MergeTurnNoFinally ==
  /\ ~crashed
  /\ mergeRun.pc = "loop"
  /\ IF LoadThrows(mergeRun.files[mergeRun.i])
     THEN /\ mergeRun' = MergeIdle
          /\ UNCHANGED <<mergerIsProcessing, downloadUrl>>
     ELSE IF mergeRun.i < Len(mergeRun.files)
     THEN /\ mergeRun' = [mergeRun EXCEPT !.i = @ + 1]
          /\ UNCHANGED <<mergerIsProcessing, downloadUrl>>
     ELSE /\ downloadUrl' = [files |-> mergeRun.files,
                             pages |-> MergedPages(mergeRun.files)]
          /\ mergerIsProcessing' = FALSE
          /\ mergeRun' = MergeIdle
  /\ UNCHANGED <<mergerFiles, draggedIndex, fileName, fileNameError>>
  /\ MergerRender
  /\ UNCHANGED besideMerger

\* One turn of the loop over files: arrayBuffer, PDFDocument.load (which
\* throws for a file it cannot read), copyPages, addPage.  After the last
\* turn the document is saved, its URL published and the flag released.
MergeTurn ==
  /\ ~crashed
  /\ mergeRun.pc = "loop"
  /\ IF LoadThrows(mergeRun.files[mergeRun.i])
     THEN MergeCaught
     ELSE IF mergeRun.i < Len(mergeRun.files)
     THEN /\ mergeRun' = [mergeRun EXCEPT !.i = @ + 1]
          /\ UNCHANGED <<mergerIsProcessing, downloadUrl>>
     ELSE /\ downloadUrl' = [files |-> mergeRun.files,
                             pages |-> MergedPages(mergeRun.files)]
          /\ mergerIsProcessing' = FALSE
          /\ mergeRun' = MergeIdle
  /\ UNCHANGED <<mergerFiles, draggedIndex, fileName, fileNameError>>
  /\ MergerRender
  /\ UNCHANGED besideMerger

\* The parser is not in use and the splitter is as it is when mounted
SplitterMounted ==
  /\ input = <<>>
  /\ pages = 0
  /\ called = FALSE
  /\ result = NotCalled
  /\ selectedFile = NoFile
  /\ totalPages = 0
  /\ splitRanges = <<>>
  /\ isProcessing = FALSE
  /\ splitPDFs = <<>>
  /\ rangeError = NoError
  /\ loading = [f \in Files |-> 0]
  /\ run = Idle
  /\ parseCalls = {}

MergerInit ==
  /\ SplitterMounted
  /\ crashed = FALSE
  /\ activeTool = "merge"
  /\ MergerMounted
  /\ CompressorMounted

MergerNext ==
  \/ \E selectedFiles \in Selections : MergerHandleFileSelect(selectedFiles)
  \/ \E index \in 0..(MaxListed - 1) : MergerRemoveFile(index)
  \/ \E index \in 0..(MaxListed - 1) : HandleDragStart(index)
  \/ \E dropIndex \in 0..(MaxListed - 1) : HandleDrop(dropIndex)
  \/ \E value \in NameInputs : HandleFileNameChange(value)
  \/ MergerResetAll
  \/ MergePDFs
  \/ MergeTurn

MergerSpec == MergerInit /\ [][MergerNext]_vars

----------------------------------------------------------------------------
(* Properties of the merger, checked under MergerSpec *)

\* The number of pages of the files before position j of a list
RECURSIVE PagesBefore(_, _)
PagesBefore(list, j) ==
  IF j <= 1 THEN 0
  ELSE PagesBefore(list, j - 1) + PageCount(list[j - 1])

\* A step in which a mergePDFs call gets past its two early returns
MergeStarted == mergeRun.pc = "idle" /\ mergeRun'.pc = "loop"

\* A step in which a merged document is published
MergePublished == downloadUrl' # downloadUrl /\ downloadUrl' # NoUrl

\* C23: a merge gets under way only with two files or more listed and a
\* file name that passes validation, and the document it publishes holds
\* every page of every file of the list as it was when the merge was
\* started, file by file in the order of that list, each file's pages in
\* their own order, and nothing else.
C23_MergedInListOrder ==
  [][ /\ MergeStarted =>
           /\ Len(mergerFiles) >= 2
           /\ validateFileName(fileName)
           /\ mergeRun'.files = mergerFiles
      /\ MergePublished =>
           LET list == mergeRun.files
               doc  == downloadUrl'.pages
           IN  /\ Len(doc) = PagesBefore(list, Len(list) + 1)
               /\ \A j \in 1..Len(list) :
                    \A k \in 1..PageCount(list[j]) :
                      doc[PagesBefore(list, j) + k] =
                        [file |-> list[j], index |-> k - 1]
    ]_vars

\* C23 witness: a document merged from the one-page file followed by the
\* longest file has been published after the list was changed in between
C23_Witness ==
  /\ downloadUrl # NoUrl
  /\ downloadUrl.files = <<2, 1>>
  /\ Len(downloadUrl.pages) = MaxPages + 1
  /\ mergerFiles # downloadUrl.files

\* C27 (as claimed): fileNameError is non-empty exactly when the current
\* fileName is rejected by the validation rules; in particular a blank name
\* shows no error.
C27_ErrorMatchesName ==
  ~crashed => ((fileNameError # "") <=> ~validateFileName(fileName))

\* How often a value occurs in a list
Occurrences(list, x) == Cardinality({i \in 1..Len(list) : list[i] = x})

\* C28 (as claimed): a handleDrop that ends a drag leaves the list with the
\* same entries as before, none of them undefined, and draggedIndex null.
C28_DropPermutes ==
  [][ (draggedIndex # Null /\ draggedIndex' = Null) =>
        /\ Len(mergerFiles') = Len(mergerFiles)
        /\ \A f \in Files \cup {Undefined} :
             Occurrences(mergerFiles', f) = Occurrences(mergerFiles, f)
        /\ Occurrences(mergerFiles', Undefined) = 0
    ]_vars

\* C29 (as claimed): a download that is offered was merged from the files
\* of the list as it is displayed, in the same order.
C29_DownloadIsCurrent ==
  (~crashed /\ downloadUrl # NoUrl) => downloadUrl.files = mergerFiles

----------------------------------------------------------------------------
(* Properties of a splitPDF run among the other handlers, checked under    *)
(* Spec                                                                    *)

\* C24 (as claimed): every document of splitPDFs was extracted from the
\* file that is selected now.
C24_ResultsOfCurrentSelection ==
  ~crashed => \A i \in 1..Len(splitPDFs) : splitPDFs[i].file = selectedFile

\* C25: a step of a splitPDF run changes splitPDFs only when it is the
\* last turn of the loop and every interval of the run has been extracted
\* from the document: a run that fails at the load, at the parse or at any
\* interval leaves splitPDFs as it was, and so does every turn before the
\* last.
C25_AllOrNothing ==
  [][ (run' # run /\ splitPDFs' # splitPDFs) =>
        /\ run.pc = "loop"
        /\ run'.pc = "idle"
        /\ run.i = Len(run.intervals)
        /\ Len(splitPDFs') = Len(run.intervals)
        /\ \A i \in 1..Len(run.intervals) :
             /\ run.intervals[i][2] <= PageCount(run.file)
             /\ splitPDFs'[i].startPage = run.intervals[i][1]
             /\ splitPDFs'[i].endPage = run.intervals[i][2]
    ]_vars

\* C25 witness: with results on display, a run of two intervals is in its
\* loop at an interval the document does not have
C25_Witness ==
  /\ run.pc = "loop"
  /\ Len(run.intervals) = 2
  /\ run.intervals[run.i][2] > PageCount(run.file)
  /\ splitPDFs # <<>>

----------------------------------------------------------------------------
(* PDFCompressor (src/components/PDFSplitter.tsx, from line 473)           *)

\* The most entries the compressor is given ids for in the model
MaxIds == 2

\* const maxTotalSize = 500 * 1024 * 1024
maxTotalSize == 500 * 1024 * 1024

\* file.name: files 1 and 2 are PDFs with the usual extension, file 3 is a
\* PDF named without it
FileName(f) ==
  CASE f = 1 -> <<"a", ".", "p", "d", "f">>
    [] f = 2 -> <<"b", ".", "p", "d", "f">>
    [] f = 3 -> <<"a">>
    [] f = 4 -> <<"c", ".", "p", "d", "f">>
    [] OTHER -> <<"d", ".", "t", "x", "t">>

\* file.size, in bytes: 300 MB, 300 MB, 200 MB, and two small files
FileSize(f) ==
  CASE f = 1 -> 300 * 1024 * 1024
    [] f = 2 -> 300 * 1024 * 1024
    [] f = 3 -> 200 * 1024 * 1024
    [] OTHER -> 1024

\* The FileLists a user selects or drops on the compressor in the model
CompressorSelections ==
  { <<1>>, <<2>>, <<3>>, <<4>>, <<5>>, <<1, 2>>, <<1, 1>>, <<3, 1>>,
    <<5, 3>> }

\* Whether `pattern` occurs in `s` from position i on
OccursAt(s, pattern, i) ==
  /\ i + Len(pattern) - 1 <= Len(s)
  /\ \A k \in 1..Len(pattern) : s[i + k - 1] = pattern[k]

\* s.replace(pattern, ''): the first occurrence of the pattern is taken out
Replace(s, pattern) ==
  IF \E i \in 1..Len(s) : OccursAt(s, pattern, i)
  THEN LET first == CHOOSE i \in 1..Len(s) :
                      /\ OccursAt(s, pattern, i)
                      /\ \A j \in 1..(i - 1) : ~OccursAt(s, pattern, j)
       IN  SubSeq(s, 1, first - 1)
             \o SubSeq(s, first + Len(pattern), Len(s))
  ELSE s

\* The PDFFile made from a file once its preview has settled
NewEntry(file, id) ==
  [id |-> id, file |-> file,
   name |-> Replace(FileName(file), <<".", "p", "d", "f">>),
   originalSize |-> FileSize(file),
   compressed |-> FALSE, isProcessing |-> FALSE, error |-> FALSE]

\* files.reduce((sum, file) => sum + file.originalSize, 0)
RECURSIVE TotalSize(_)
TotalSize(files) ==
  IF files = <<>> THEN 0
  ELSE Head(files).originalSize + TotalSize(Tail(files))

\* The loop of validateFiles over the selection, from its i-th file on
RECURSIVE ValidateLoop(_, _, _, _, _)
ValidateLoop(selectedFiles, files, i, totalSize, validFiles) ==
  IF i > Len(selectedFiles) THEN validFiles
  ELSE LET file == selectedFiles[i]
       IN  IF FileType(file) # "application/pdf"
           THEN ValidateLoop(selectedFiles, files, i + 1, totalSize,
                             validFiles)
           ELSE IF \E k \in 1..Len(files) :
                     /\ files[k].name = FileName(file)
                     /\ files[k].originalSize = FileSize(file)
           THEN ValidateLoop(selectedFiles, files, i + 1, totalSize,
                             validFiles)
           ELSE IF totalSize + FileSize(file) > maxTotalSize
           THEN validFiles
           ELSE ValidateLoop(selectedFiles, files, i + 1,
                             totalSize + FileSize(file),
                             Append(validFiles, file))

\* validateFiles(selectedFiles), with the files of the render it closes over
validateFiles(selectedFiles, files) ==
  ValidateLoop(selectedFiles, files, 1, TotalSize(files), <<>>)

\* What a handler of the compressor leaves alone
besideCompressor == <<parseVars, splitterVars, crashed, activeTool, mergerVars>>

\* The files the suspended handleFileSelect calls will add
RECURSIVE Pending(_)
Pending(calls) ==
  IF calls = <<>> THEN 0 ELSE Len(Head(calls)) + Pending(Tail(calls))

\* handleFileSelect(selectedFiles), up to await Promise.all(...); also
\* reached from handleDrop
CompressorHandleFileSelect(selectedFiles) ==
  /\ ~crashed
  /\ Len(previews) < MaxLoads
  /\ LET validFiles == validateFiles(selectedFiles, compressorFiles)
     IN  /\ (nextId - 1) + Pending(previews) + Len(validFiles) <= MaxIds
         /\ previews' = Append(previews, validFiles)
  /\ UNCHANGED <<compressorFiles, compressorIsProcessing, compressRun, nextId>>
  /\ UNCHANGED besideCompressor

\* handleFileSelect, from the point where the previews of its validFiles
\* have settled: the entries get their ids and are appended
PreviewsSettled(call) ==
  /\ ~crashed
  /\ call \in 1..Len(previews)
  /\ LET validFiles == previews[call]
         newFiles == [k \in 1..Len(validFiles) |->
                        NewEntry(validFiles[k], nextId + k - 1)]
     IN  /\ compressorFiles' = compressorFiles \o newFiles
         /\ nextId' = nextId + Len(validFiles)
  /\ previews' = SpliceOut(previews, call - 1)
  /\ UNCHANGED <<compressorIsProcessing, compressRun>>
  /\ UNCHANGED besideCompressor

\* removeFile(file.id), from the button of the row at `index`
CompressorRemoveFile(index) ==
  /\ ~crashed
  /\ index < Len(compressorFiles)
  /\ compressorFiles' =
       SelectSeq(compressorFiles,
                 LAMBDA file : file.id # compressorFiles[index + 1].id)
  /\ UNCHANGED <<compressorIsProcessing, previews, compressRun, nextId>>
  /\ UNCHANGED besideCompressor

\* resetAll: its button is shown with a file listed
CompressorResetAll ==
  /\ ~crashed
  /\ compressorFiles # <<>>
  /\ compressorFiles' = <<>>
  /\ UNCHANGED <<compressorIsProcessing, previews, compressRun, nextId>>
  /\ UNCHANGED besideCompressor

\* setFiles(prev => prev.map(f => f.id === file.id
\*   ? { ...f, isProcessing: true, error: undefined } : f))
Processing(files, id) ==
  [k \in 1..Len(files) |->
     IF files[k].id = id
     THEN [files[k] EXCEPT !.isProcessing = TRUE, !.error = FALSE]
     ELSE files[k]]

\* setFiles(prev => prev.map(f => f.id === file.id
\*   ? { ...f, compressedBlob, compressedSize, isProcessing: false } : f))
Compressed(files, id) ==
  [k \in 1..Len(files) |->
     IF files[k].id = id
     THEN [files[k] EXCEPT !.compressed = TRUE, !.isProcessing = FALSE]
     ELSE files[k]]

\* setFiles(prev => prev.map(f => f.id === file.id
\*   ? { ...f, isProcessing: false, error: 'Error al comprimir el archivo' }
\*   : f))
Failed(files, id) ==
  [k \in 1..Len(files) |->
     IF files[k].id = id
     THEN [files[k] EXCEPT !.isProcessing = FALSE, !.error = TRUE]
     ELSE files[k]]

\* The turns of the loop of compressFiles from the i-th file of its list
\* on, up to the next await or to the end: files that have a compressedBlob
\* are skipped, the first one that has none is marked and compressPDF is
\* awaited; past the last file the flag is released.
RECURSIVE CompressFrom(_, _, _)
CompressFrom(list, i, files) ==
  IF i > Len(list)
  THEN /\ compressorFiles' = files
       /\ compressorIsProcessing' = FALSE
       /\ compressRun' = CompressIdle
  ELSE IF list[i].compressed
  THEN CompressFrom(list, i + 1, files)
  ELSE /\ compressorFiles' = Processing(files, list[i].id)
       /\ compressorIsProcessing' = TRUE
       /\ compressRun' = [pc |-> "compress", files |-> list, i |-> i]

\* compressFiles(), up to its first await; the button is shown with a file
\* listed and is disabled={isProcessing}
CompressFiles ==
  /\ ~crashed
  /\ compressorFiles # <<>>
  /\ ~compressorIsProcessing
  /\ CompressFrom(compressorFiles, 1, compressorFiles)
  /\ UNCHANGED <<previews, nextId>>
  /\ UNCHANGED besideCompressor

\* compressFiles(), from the point where compressPDF(file) settles: the
\* result or the error is recorded in the entry, and the loop goes on
CompressSettled ==
  /\ ~crashed
  /\ compressRun.pc = "compress"
  /\ LET file == compressRun.files[compressRun.i]
         done == IF LoadThrows(file.file)
                 THEN Failed(compressorFiles, file.id)
                 ELSE Compressed(compressorFiles, file.id)
     IN  CompressFrom(compressRun.files, compressRun.i + 1, done)
  /\ UNCHANGED <<previews, nextId>>
  /\ UNCHANGED besideCompressor

CompressorInit ==
  /\ SplitterMounted
  /\ crashed = FALSE
  /\ activeTool = "compress"
  /\ MergerMounted
  /\ CompressorMounted

CompressorNext ==
  \/ \E selectedFiles \in CompressorSelections :
       CompressorHandleFileSelect(selectedFiles)
  \/ \E call \in 1..MaxLoads : PreviewsSettled(call)
  \/ \E index \in 0..(MaxIds - 1) : CompressorRemoveFile(index)
  \/ CompressorResetAll
  \/ CompressFiles
  \/ CompressSettled

CompressorSpec == CompressorInit /\ [][CompressorNext]_vars

----------------------------------------------------------------------------
(* Properties of the compressor's list, checked under CompressorSpec *)

\* C21 (as claimed): no two entries of the compressor's list come from
\* files with the same file name and the same size.
C21_NoDuplicateEntries ==
  \A i, j \in 1..Len(compressorFiles) :
    i # j =>
      ~ /\ FileName(compressorFiles[i].file) = FileName(compressorFiles[j].file)
        /\ compressorFiles[i].originalSize = compressorFiles[j].originalSize

\* C22 (as claimed): the sum of originalSize over the compressor's list
\* never exceeds 500 MB.
C22_TotalSizeWithinLimit ==
  TotalSize(compressorFiles) <= maxTotalSize

----------------------------------------------------------------------------
(* PDFTools: one of the three components is mounted at a time.  ToolsSpec
   is the whole page, with the awaited library calls of the three runs
   assumed to settle. *)

Tools == {"merge", "split", "compress"}

\* onClick={() => setActiveTool(tool)}: the component shown is unmounted and
\* its state is lost, the other one is mounted with its initial state; what
\* a call of the unmounted component still sets after its awaits is dropped
SetActiveTool(tool) ==
  /\ ~crashed
  /\ tool # activeTool
  /\ activeTool' = tool
  /\ selectedFile' = NoFile
  /\ totalPages' = 0
  /\ splitRanges' = <<>>
  /\ isProcessing' = FALSE
  /\ splitPDFs' = <<>>
  /\ rangeError' = NoError
  /\ loading' = [f \in Files |-> 0]
  /\ run' = Idle
  /\ parseCalls' = {}
  /\ mergerFiles' = <<>>
  /\ mergerIsProcessing' = FALSE
  /\ downloadUrl' = NoUrl
  /\ draggedIndex' = Null
  /\ fileName' = <<>>
  /\ fileNameError' = ""
  /\ mergeRun' = MergeIdle
  /\ compressorFiles' = <<>>
  /\ compressorIsProcessing' = FALSE
  /\ previews' = <<>>
  /\ compressRun' = CompressIdle
  /\ nextId' = 1
  /\ UNCHANGED <<parseVars, crashed>>

\* useState<Tool>('merge')
ToolsInit ==
  /\ activeTool = "merge"
  /\ crashed = FALSE
  /\ SplitterMounted
  /\ MergerMounted
  /\ CompressorMounted

ToolsNext ==
  \/ \E tool \in Tools : SetActiveTool(tool)
  \/ activeTool = "split" /\ Next
  \/ activeTool = "merge" /\ MergerNext
  \/ activeTool = "compress" /\ CompressorNext

\* A step of splitPDF past one of its awaits
SplitSettles == SplitLoaded \/ SplitInterval

\* Each awaited library call eventually settles: weak fairness of the steps
\* that follow the awaits of mergePDFs, of compressFiles and of splitPDF.
\* The last conjunct is WF_vars(SplitSettles) written out, with the
\* condition under which SplitSettles is enabled in place of ENABLED.
AwaitsSettle ==
  /\ WF_vars(MergeTurn)
  /\ WF_vars(CompressSettled)
  /\ \/ []<>(run.pc = "idle" \/ crashed)
     \/ []<><<SplitSettles>>_vars

ToolsSpec == ToolsInit /\ [][ToolsNext]_vars /\ AwaitsSettle

\* C26: whenever the busy flag of the splitter, of the merger or of the
\* compressor is set, it is eventually released, whether the run succeeds
\* or one of its library calls fails, as long as the page is still rendered
\* (once a render has thrown there is no component left to hold the flag).
C26_BusyFlagReleased ==
  /\ (isProcessing /\ ~crashed) ~> (~isProcessing \/ crashed)
  /\ (mergerIsProcessing /\ ~crashed) ~> (~mergerIsProcessing \/ crashed)
  /\ (compressorIsProcessing /\ ~crashed)
       ~> (~compressorIsProcessing \/ crashed)

\* A mergePDFs run holds the flag and the load it is waiting for will throw
C26_Witness ==
  /\ activeTool = "merge"
  /\ mergerIsProcessing
  /\ mergeRun.pc = "loop"
  /\ LoadThrows(mergeRun.files[mergeRun.i])

====
